---- MODULE Spec2Model ----
(***************************************************************************)
(* A model of the per-frame systems of pingis_pong (src/src/main.rs):      *)
(* paddle_movement, print_events, ball_goal and render_scoreboard, run     *)
(* once per frame by the bevy scheduler over the rapier RigidBodySet, the  *)
(* Score resource, the EventQueue and the two scoreboard Text entities.    *)
(*                                                                         *)
(* Numbers.  Display quantities (Transform, ARENA_WIDTH, ...) are whole    *)
(* pixels.  Physics quantities (body positions, velocities, angles) are    *)
(* f32 in the program; here they are fixed-point integers counting         *)
(* hundredths of a physics unit (or of a radian), so 0.75 is 75, 0.8 rad   *)
(* is 80 and 20.0 is 2000.  Every limit the program compares against is    *)
(* exactly representable both as f32 and in hundredths.                    *)
(***************************************************************************)
EXTENDS Integers, Sequences, FiniteSets, TLC

VARIABLES
    keyboard_input,       \* Input<KeyCode>: the set of keys currently pressed
    rigid_bodies,         \* RigidBodySet: body handle -> body (partial function)
    ball_transform_x,     \* the ball entity's Transform.translation.x (pixels)
    score,                \* the Score resource: [left, right]
    text,                 \* player -> sections[0].value of that player's Text
    intersection_events,  \* EventQueue.intersection_events
    contact_events,       \* EventQueue.contact_events
    ran,                  \* the systems that have run in the current frame
    resets,               \* number of ball resets performed (set_position calls
                          \* of ball_goal); history only, read by no system
    popped,               \* number of events print_events popped in the current
                          \* frame; history only, read by no system
    frame_start           \* what the systems found at the start of a frame;
                          \* history only, read by no system

vars == <<keyboard_input, rigid_bodies, ball_transform_x, score, text,
          intersection_events, contact_events, ran, resets, popped, frame_start>>

-----------------------------------------------------------------------------
(* Bounds of the model *)

MaxPressed == 2     \* keys held down at the same time
MaxGoals == 2       \* goals scored in a session (caps the u32 counters)
MaxEvents == 2      \* events the engine enqueues per frame, over both queues

-----------------------------------------------------------------------------
(* Constants of the program *)

ARENA_WIDTH == 1000
ARENA_HEIGHT == 600
ARENA_MIDDLE == ARENA_WIDTH \div 2
PADDLE_WIDTH == 15
scale == 20                 \* rapier_config.scale
paddle_speed == 600         \* Paddle(paddle_speed)
wall_offset == 50
ANGLE_LIMIT == 80           \* 0.8 rad
ROTATION_SPEED == 300       \* 3. rad/s
RESET_SPEED == 2000         \* 20.0 units/s

Players == {"Left", "Right"}

\* i32/f32 division of a pixel quantity by the scale, in hundredths.
ToPhysics(px) == (px * 100) \div scale

\* The plugin's transform sync: physics position times scale, in pixels.
ToDisplay(u) == (u * scale) \div 100

-----------------------------------------------------------------------------
(* Entities, handles and key bindings *)

\* RigidBodyHandleComponent of each paddle and of the ball.
PaddleHandle(player) == IF player = "Left" THEN "paddle_left" ELSE "paddle_right"
BallHandle == "ball"
Handles == {PaddleHandle(p) : p \in Players} \cup {BallHandle}

\* The twelve KeyCodes the program reads.
KeyCodes == {"A", "D", "S", "W", "E", "Q",
             "Numpad4", "Numpad6", "Numpad5", "Numpad8", "Numpad9", "Numpad7"}

\* keyboard_input.pressed(key) as i8
pressed(keys, key) == IF key \in keys THEN 1 ELSE 0

\* Variant: a priority chain between the two keys of an axis.
AxisPriority(keys, negative, positive) ==
    IF negative \in keys THEN -1 ELSE IF positive \in keys THEN 1 ELSE 0

\* -(pressed(negative) as i8) + (pressed(positive) as i8)
Axis(keys, negative, positive) == -pressed(keys, negative) + pressed(keys, positive)

x_axis(keys, player) ==
    IF player = "Left" THEN Axis(keys, "A", "D") ELSE Axis(keys, "Numpad4", "Numpad6")

y_axis(keys, player) ==
    IF player = "Left" THEN Axis(keys, "S", "W") ELSE Axis(keys, "Numpad5", "Numpad8")

rotation_direction(keys, player) ==
    IF player = "Left" THEN Axis(keys, "E", "Q") ELSE Axis(keys, "Numpad9", "Numpad7")

-----------------------------------------------------------------------------
(* Rigid bodies *)

Vec(a, b) == <<a, b>>
ZeroVec == Vec(0, 0)

Body(x, y, angle, linvel, angvel) ==
    [x |-> x, y |-> y, angle |-> angle, linvel |-> linvel, angvel |-> angvel]

\* Translation2 -> Isometry2 (`trans.into()`), and Isometry2::translation(x, y):
\* an isometry with that translation and the identity rotation.
IsometryOfTranslation(x, y) == [x |-> x, y |-> y, angle |-> 0]

\* rb.set_position(iso, true): translation and rotation are both replaced.
set_position(rb, iso) == [rb EXCEPT !.x = iso.x, !.y = iso.y, !.angle = iso.angle]

set_linvel(rb, v) == [rb EXCEPT !.linvel = v]

set_angvel(rb, w) == [rb EXCEPT !.angvel = w]

-----------------------------------------------------------------------------
(* paddle_movement *)

\* Vector2::magnitude of a direction with components in {-1, 0, 1}, in
\* thousandths: 0, 1000 or 1414.
SqrtThousandths ==
    [n \in 0..2 |-> CHOOSE r \in 0..1500 :
                        r * r <= n * 1000000 /\ (r + 1) * (r + 1) > n * 1000000]

magnitude(v) == SqrtThousandths[v[1] * v[1] + v[2] * v[2]]

\* move_delta after `move_delta /= move_delta.magnitude() * scale`, times
\* paddle.0: the linear velocity handed to set_linvel, in hundredths.
LinearVelocity(keys, player) ==
    LET move_delta == Vec(x_axis(keys, player), y_axis(keys, player))
    IN  IF move_delta # ZeroVec
        THEN LET per_component ==
                     (paddle_speed * 100 * 1000) \div (magnitude(move_delta) * scale)
             IN  Vec(move_delta[1] * per_component, move_delta[2] * per_component)
        ELSE ZeroVec

\* (lim_left, lim_right) of a player, scaled to the physics engine.
Limits(player) ==
    LET lim == IF player = "Left"
               THEN Vec(PADDLE_WIDTH, ARENA_MIDDLE - PADDLE_WIDTH)
               ELSE Vec(ARENA_MIDDLE + PADDLE_WIDTH, ARENA_WIDTH - PADDLE_WIDTH)
    IN  Vec(ToPhysics(lim[1]), ToPhysics(lim[2]))

\* Variant: the else-if branch is missing.
ClampPaddleNoUpper(rb, player) ==
    LET lim_left == Limits(player)[1]
    IN  IF rb.x < lim_left
        THEN set_position(rb, IsometryOfTranslation(lim_left, rb.y))
        ELSE rb

\* "Clamp paddle": the position is written only when x is outside the limits.
ClampPaddle(rb, player) ==
    LET lim_left == Limits(player)[1]
        lim_right == Limits(player)[2]
    IN  IF rb.x < lim_left
        THEN set_position(rb, IsometryOfTranslation(lim_left, rb.y))
        ELSE IF rb.x > lim_right
        THEN set_position(rb, IsometryOfTranslation(lim_right, rb.y))
        ELSE rb

\* Variant: strict comparisons against the angle limit.
AngularVelocityStrict(direction, cur_angle) ==
    LET rotation == direction * ROTATION_SPEED
    IN  IF rotation > 0 /\ cur_angle < ANGLE_LIMIT THEN rotation
        ELSE IF rotation < 0 /\ cur_angle > -ANGLE_LIMIT THEN rotation
        ELSE 0

\* "Angle the paddle": the angular velocity handed to set_angvel.
AngularVelocity(direction, cur_angle) ==
    LET rotation == direction * ROTATION_SPEED
    IN  IF rotation > 0 /\ cur_angle <= ANGLE_LIMIT THEN rotation
        ELSE IF rotation < 0 /\ cur_angle >= -ANGLE_LIMIT THEN rotation
        ELSE 0

\* One iteration of the loop over the paddles: both `if let Some(rb)` blocks.
MovePaddle(bodies, keys, player) ==
    LET h == PaddleHandle(player)
        moved ==
            IF h \in DOMAIN bodies
            THEN [bodies EXCEPT ![h] =
                      ClampPaddle(set_linvel(@, LinearVelocity(keys, player)), player)]
            ELSE bodies
    IN  IF h \in DOMAIN moved
        THEN [moved EXCEPT ![h] =
                  set_angvel(@, AngularVelocity(rotation_direction(keys, player),
                                                @.angle))]
        ELSE moved

\* Variant: the query lacks its Paddle filter, so the loop also reaches the
\* ball and stops it.
MoveAllBodies(bodies, keys) ==
    LET moved == MovePaddle(MovePaddle(bodies, keys, "Left"), keys, "Right")
    IN  IF BallHandle \in DOMAIN moved
        THEN [moved EXCEPT ![BallHandle] = set_linvel(@, ZeroVec)]
        ELSE moved

\* The whole loop; the query yields the paddles in spawn order.
MoveAllPaddles(bodies, keys) == MovePaddle(MovePaddle(bodies, keys, "Left"), keys, "Right")

paddle_movement ==
    /\ "paddle_movement" \notin ran
    /\ rigid_bodies' = MoveAllPaddles(rigid_bodies, keyboard_input)
    /\ ran' = ran \cup {"paddle_movement"}
    /\ UNCHANGED <<keyboard_input, ball_transform_x, score, text,
                   intersection_events, contact_events, resets, popped,
                   frame_start>>

-----------------------------------------------------------------------------
(* print_events *)

\* ContactEvent::Started(h1, h2) and ContactEvent::Stopped(h1, h2), over the
\* collider handles of the ball, a paddle and a wall.
ContactEvents ==
    { [kind |-> "Started", h1 |-> "ball", h2 |-> "paddle_left"],
      [kind |-> "Stopped", h1 |-> "paddle_left", h2 |-> "ball"],
      [kind |-> "Stopped", h1 |-> "paddle_right", h2 |-> "wall_top"] }

IntersectionEvents == { [h1 |-> "ball", h2 |-> "paddle_right"] }

\* The test of the inner loop over the ball entities; its body is empty.
BallInvolved(event) ==
    event.kind = "Stopped" /\ (event.h1 = BallHandle \/ event.h2 = BallHandle)

\* Variant: a single pop instead of the loop.
PopOnce(queue) == IF queue = <<>> THEN queue ELSE Tail(queue)

\* `while let Ok(event) = queue.pop() { }`: pop until the queue is empty.
RECURSIVE Drain(_)
Drain(queue) == IF queue = <<>> THEN queue ELSE Drain(Tail(queue))

print_events ==
    /\ "print_events" \notin ran
    /\ intersection_events' = Drain(intersection_events)
    /\ contact_events' = Drain(contact_events)
    /\ popped' = (Len(intersection_events) - Len(intersection_events'))
                  + (Len(contact_events) - Len(contact_events'))
    /\ ran' = ran \cup {"print_events"}
    /\ UNCHANGED <<keyboard_input, rigid_bodies, ball_transform_x, score, text, resets,
                   frame_start>>

-----------------------------------------------------------------------------
(* ball_goal *)

\* Variant: the limits themselves count as goals.
GoalInclusive(x) ==
    LET lim_left == 0
        lim_right == ARENA_WIDTH
    IN  IF x <= lim_left THEN "right"
        ELSE IF x >= lim_right THEN "left"
        ELSE "none"

\* The if / else-if chain on transform.translation.x: which side is awarded
\* the point, "none" when the ball is inside [lim_left, lim_right].
Goal(x) ==
    LET lim_left == 0
        lim_right == ARENA_WIDTH
    IN  IF x < lim_left THEN "right"
        ELSE IF x > lim_right THEN "left"
        ELSE "none"

\* Variant: the left counter is rebuilt from a default Score.
AddGoalFromDefault(sc, goal) ==
    IF goal = "right" THEN [sc EXCEPT !.right = @ + 1]
    ELSE IF goal = "left" THEN [left |-> sc.left + 1, right |-> 0]
    ELSE sc

\* score.right += 1 / score.left += 1
AddGoal(sc, goal) ==
    IF goal = "right" THEN [sc EXCEPT !.right = @ + 1]
    ELSE IF goal = "left" THEN [sc EXCEPT !.left = @ + 1]
    ELSE sc

\* The value of `reset_ball`.
reset_ball(goal) == goal # "none"

\* (cos(angle), sin(angle)) in thousandths for the angles fastrand may draw;
\* the model draws among 0, pi/2 and pi.
Directions == { Vec(1000, 0), Vec(0, 1000), Vec(-1000, 0) }

\* The body of `if let Some(rb)`: new velocity, then the start position.
ResetBall(rb, direction) ==
    LET x == ToPhysics(ARENA_WIDTH \div 2)
        y == ToPhysics(ARENA_HEIGHT \div 2)
        start_pos == IsometryOfTranslation(x, y)
        speed == Vec((direction[1] * RESET_SPEED) \div 1000,
                     (direction[2] * RESET_SPEED) \div 1000)
    IN  set_position(set_linvel(rb, speed), start_pos)

ball_goal ==
    /\ "ball_goal" \notin ran
    /\ LET goal == Goal(ball_transform_x)
           found == BallHandle \in DOMAIN rigid_bodies
       IN  /\ score' = AddGoal(score, goal)
           /\ IF reset_ball(goal) /\ found
              THEN /\ \E direction \in Directions :
                        rigid_bodies' =
                            [rigid_bodies EXCEPT ![BallHandle] = ResetBall(@, direction)]
                   /\ resets' = resets + 1
              ELSE UNCHANGED <<rigid_bodies, resets>>
    /\ ran' = ran \cup {"ball_goal"}
    /\ UNCHANGED <<keyboard_input, ball_transform_x, text,
                   intersection_events, contact_events, popped, frame_start>>

-----------------------------------------------------------------------------
(* render_scoreboard *)

Digits == <<"0", "1", "2", "3", "4", "5", "6", "7", "8", "9">>

\* format!("{}", n) for an unsigned n: its decimal digits, most significant
\* first, as a sequence of characters.
RECURSIVE Format(_)
Format(n) ==
    IF n < 10 THEN <<Digits[n + 1]>>
    ELSE Format(n \div 10) \o <<Digits[(n % 10) + 1]>>

ScoreOf(sc, player) == IF player = "Left" THEN sc.left ELSE sc.right

\* Variant: no ordering constraint on the system.
RenderUnordered == TRUE

\* .after("ball_goal")
RenderOrdered == "ball_goal" \in ran

render_scoreboard ==
    /\ "render_scoreboard" \notin ran
    /\ RenderOrdered
    /\ text' = [player \in Players |-> Format(ScoreOf(score, player))]
    /\ ran' = ran \cup {"render_scoreboard"}
    /\ UNCHANGED <<keyboard_input, rigid_bodies, ball_transform_x, score,
                   intersection_events, contact_events, resets, popped,
                   frame_start>>

-----------------------------------------------------------------------------
(* The frame: the bevy schedule and the physics plugin *)

Systems == {"paddle_movement", "print_events", "ball_goal", "render_scoreboard"}

Pose(x, y, angle) == [x |-> x, y |-> y, angle |-> angle]

\* Where the physics step may leave a paddle: just outside and on each of
\* its limits and at its spawn position, on and just past each angle limit,
\* on screen and above it.
PaddlePoses(player) ==
    LET lim_left == Limits(player)[1]
        lim_right == Limits(player)[2]
        spawn_x == IF player = "Left" THEN ToPhysics(wall_offset)
                   ELSE ToPhysics(ARENA_WIDTH - wall_offset)
        on_screen == ToPhysics(ARENA_HEIGHT \div 2)
        above == ToPhysics(ARENA_HEIGHT + 20)
    IN  { Pose(lim_left - 25, on_screen, ANGLE_LIMIT + 10),
          Pose(lim_left, above, -ANGLE_LIMIT),
          Pose(lim_right, on_screen, ANGLE_LIMIT),
          Pose(lim_right + 25, above, -ANGLE_LIMIT - 10),
          Pose(spawn_x, on_screen, ANGLE_LIMIT + 10),
          Pose(spawn_x, above, -ANGLE_LIMIT - 10) }

\* Where the physics step may leave the ball: past, on and between the goal
\* lines (5 px past is 25 hundredths).
BallPoses ==
    { Pose(ToPhysics(-5), ToPhysics(ARENA_HEIGHT \div 2), 0),
      Pose(ToPhysics(0), ToPhysics(100), 0),
      Pose(ToPhysics(ARENA_WIDTH \div 2), ToPhysics(ARENA_HEIGHT \div 2), 0),
      Pose(ToPhysics(ARENA_WIDTH), ToPhysics(500), 0),
      Pose(ToPhysics(ARENA_WIDTH + 5), ToPhysics(ARENA_HEIGHT \div 2), 0) }

NoPoses == {}

\* The environments the three specifications run the systems in.
GamePlaces == [h \in Handles |-> IF h = BallHandle THEN BallPoses ELSE NoPoses]
PaddlePlaces ==
    [h \in Handles |-> IF h = BallHandle THEN NoPoses
                       ELSE IF h = PaddleHandle("Left") THEN PaddlePoses("Left")
                       ELSE PaddlePoses("Right")]
LookupPlaces ==
    [h \in Handles |-> IF h = BallHandle
                       THEN { Pose(ToPhysics(-5), ToPhysics(ARENA_HEIGHT \div 2), 0),
                              Pose(ToPhysics(ARENA_WIDTH + 5), ToPhysics(ARENA_HEIGHT \div 2), 0) }
                       ELSE NoPoses]

GameKeys == { {}, {"D"} }
PaddleKeys == { keys \in SUBSET KeyCodes : Cardinality(keys) <= MaxPressed }
LookupKeys == { {}, {"D"}, {"Numpad7"} }

RECURSIVE SeqsOfLength(_, _)
SeqsOfLength(S, n) ==
    IF n = 0 THEN { <<>> }
    ELSE { Append(q, e) : q \in SeqsOfLength(S, n - 1), e \in S }

\* The batches of events one physics step may enqueue: at most `cap` events
\* over the two queues.
EventBatches(cap) ==
    UNION { { <<i, c>> : i \in SeqsOfLength(IntersectionEvents, ni),
                         c \in SeqsOfLength(ContactEvents, nc) } :
            <<ni, nc>> \in { <<a, b>> \in (0..cap) \X (0..cap) : a + b <= cap } }

GameBatches == EventBatches(MaxEvents)
NoBatches == EventBatches(0)

SymDiff(a, b) == (a \ b) \cup (b \ a)

\* The bodies after a physics step: all as they were, or one registered body
\* moved to one of its places (its velocities kept).
StepOutcomes(bodies, places) ==
    {bodies} \cup
    UNION { { [bodies EXCEPT ![h].x = pose.x, ![h].y = pose.y, ![h].angle = pose.angle] :
              pose \in places[h] } : h \in DOMAIN bodies }

\* What happens between the last system of a frame and the first of the
\* next: the physics step moves bodies and enqueues events, the transform
\* sync copies the ball body's position (times scale) into its Transform,
\* and the input system records at most one key change.
EndFrame(keySets, places, batches) ==
    /\ ran = Systems
    /\ ran' = {}
    /\ popped' = 0
    /\ \E keys \in keySets :
           /\ Cardinality(SymDiff(keys, keyboard_input)) <= 1
           /\ keyboard_input' = keys
    /\ \E bodies \in StepOutcomes(rigid_bodies, places) :
           /\ rigid_bodies' = bodies
           /\ ball_transform_x' =
                  IF BallHandle \in DOMAIN bodies
                  THEN ToDisplay(bodies[BallHandle].x)
                  ELSE ball_transform_x
           /\ Goal(ball_transform_x') # "none" => score.left + score.right < MaxGoals
    /\ \E batch \in batches :
           /\ intersection_events' = intersection_events \o batch[1]
           /\ contact_events' = contact_events \o batch[2]
    /\ UNCHANGED <<score, text, resets>>

end_frame == EndFrame(GameKeys, GamePlaces, GameBatches) /\ UNCHANGED frame_start

end_frame_paddles == EndFrame(PaddleKeys, PaddlePlaces, NoBatches) /\ UNCHANGED frame_start

end_frame_lookup == EndFrame(LookupKeys, LookupPlaces, NoBatches) /\ UNCHANGED frame_start

\* What the three unordered systems read and write, as a frame finds it.
Snapshot(bodies, sc, intersections, contacts) ==
    [rigid_bodies |-> bodies, score |-> sc,
     intersection_events |-> intersections, contact_events |-> contacts]

\* The environment in which the orders of the systems are compared: the ball
\* crosses either goal line, the left paddle is pushed past its lower limit,
\* two keys change, events that involve the ball arrive.
OrderKeys == { {}, {"D"}, {"D", "Q"} }
OrderBatches ==
    { batch \in GameBatches :
          \A i \in 1..Len(batch[2]) : BallInvolved(batch[2][i]) }
OrderPlaces ==
    [h \in Handles |->
        IF h = BallHandle THEN LookupPlaces[BallHandle]
        ELSE IF h = PaddleHandle("Left")
        THEN { pose \in PaddlePoses("Left") : pose.x < Limits("Left")[1] }
        ELSE NoPoses]

end_frame_order ==
    /\ EndFrame(OrderKeys, OrderPlaces, OrderBatches)
    /\ frame_start' = Snapshot(rigid_bodies', score', intersection_events',
                               contact_events')

\* A body leaves the RigidBodySet while its entity keeps its handle
\* component: from then on get_mut(handle) is None.
remove_body ==
    /\ ran = {}
    /\ \E h \in DOMAIN rigid_bodies :
           rigid_bodies' = [k \in DOMAIN rigid_bodies \ {h} |-> rigid_bodies[k]]
    /\ UNCHANGED <<keyboard_input, ball_transform_x, score, text,
                   intersection_events, contact_events, ran, resets, popped,
                   frame_start>>

-----------------------------------------------------------------------------
(* Specifications *)

\* After the startup systems and the plugin's body creation: the bodies are
\* where spawn_paddles and spawn_ball put them, the ball's Transform is still
\* the SpriteBundle default, the score is Score::default() and both texts
\* are "".
Init ==
    /\ keyboard_input = {}
    /\ rigid_bodies =
           [h \in Handles |->
               IF h = PaddleHandle("Left")
               THEN Body(ToPhysics(wall_offset), ToPhysics(ARENA_HEIGHT \div 2),
                         0, ZeroVec, 0)
               ELSE IF h = PaddleHandle("Right")
               THEN Body(ToPhysics(ARENA_WIDTH - wall_offset),
                         ToPhysics(ARENA_HEIGHT \div 2), 0, ZeroVec, 0)
               ELSE Body(ToPhysics(ARENA_WIDTH \div 2), ToPhysics(ARENA_HEIGHT \div 2),
                         0, Vec(1000, 1000), 0)]
    /\ ball_transform_x = 0
    /\ score = [left |-> 0, right |-> 0]
    /\ text = [player \in Players |-> <<>>]
    /\ intersection_events = <<>>
    /\ contact_events = <<>>
    /\ ran = {}
    /\ resets = 0
    /\ popped = 0
    /\ frame_start = Snapshot(rigid_bodies, score, intersection_events, contact_events)

\* The game: the ball moves anywhere, events arrive.
Next ==
    \/ paddle_movement
    \/ print_events
    \/ ball_goal
    \/ render_scoreboard
    \/ end_frame

Spec == Init /\ [][Next]_vars

\* The paddles: any keys, paddles pushed to and past their limits.
NextPaddle ==
    \/ paddle_movement
    \/ print_events
    \/ ball_goal
    \/ render_scoreboard
    \/ end_frame_paddles

SpecPaddle == Init /\ [][NextPaddle]_vars

\* Handle lookups that fail.
NextLookup ==
    \/ paddle_movement
    \/ print_events
    \/ ball_goal
    \/ render_scoreboard
    \/ end_frame_lookup
    \/ remove_body

SpecLookup == Init /\ [][NextLookup]_vars

\* The orders of the systems: every frame records what it started from.
NextOrder ==
    \/ paddle_movement
    \/ print_events
    \/ ball_goal
    \/ render_scoreboard
    \/ end_frame_order

SpecOrder == Init /\ [][NextOrder]_vars

-----------------------------------------------------------------------------
(* Properties *)

\* The step is a run of the named system.
Runs(system) == system \notin ran /\ system \in ran'

Ball == rigid_bodies[BallHandle]

\* The arena center in physics units: (ARENA_WIDTH/2/scale, ARENA_HEIGHT/2/scale).
AtCenter(rb) ==
    /\ rb.x * scale * 2 = ARENA_WIDTH * 100
    /\ rb.y * scale * 2 = ARENA_HEIGHT * 100

\* C1: one ball_goal pass on a ball at horizontal position x: x < 0 adds
\* exactly 1 to score.right, leaves score.left and puts the ball at the arena
\* center; x > ARENA_WIDTH adds exactly 1 to score.left, leaves score.right
\* and puts the ball at the center; 0 <= x <= ARENA_WIDTH changes neither
\* counter and touches neither the ball's position nor its velocity.
C1_GoalPass ==
    [][ Runs("ball_goal") =>
          LET x == ball_transform_x
              after == rigid_bodies'[BallHandle]
          IN  /\ x < 0 =>
                    /\ score'.right = score.right + 1
                    /\ score'.left = score.left
                    /\ AtCenter(after)
              /\ x > ARENA_WIDTH =>
                    /\ score'.left = score.left + 1
                    /\ score'.right = score.right
                    /\ AtCenter(after)
              /\ (0 <= x /\ x <= ARENA_WIDTH) =>
                    /\ score' = score
                    /\ after = Ball ]_vars

\* The spec's scenario: the ball at x = -5 with score {0, 0} has given
\* {left: 0, right: 1} and the ball at the center.
C1_Witness ==
    /\ "ball_goal" \in ran
    /\ ball_transform_x = -5
    /\ score = [left |-> 0, right |-> 1]
    /\ AtCenter(Ball)

\* C2: the number of resets performed so far always equals
\* score.left + score.right: every step that increments a counter is a
\* ball_goal step that resets the ball exactly once (position at the center,
\* velocity replaced by one of magnitude RESET_SPEED), and no other step
\* resets it.
C2_OneResetPerGoal ==
    [][ /\ resets = score.left + score.right
        /\ resets' = score'.left + score'.right
        /\ resets' # resets => score' # score
        /\ score' # score =>
               LET after == rigid_bodies'[BallHandle]
               IN  /\ Runs("ball_goal")
                   /\ resets' = resets + 1
                   /\ BallHandle \in DOMAIN rigid_bodies'
                   /\ AtCenter(after)
                   /\ after.linvel[1] * after.linvel[1] + after.linvel[2] * after.linvel[2]
                          = RESET_SPEED * RESET_SPEED ]_vars

\* C3: when the handle lookup of an entity fails in a frame, the update
\* skips the entity: paddle_movement commands nothing for that paddle and
\* ball_goal changes neither a body nor the score.
C3_LookupFailureSkips ==
    [][ /\ Runs("paddle_movement") =>
               \A player \in Players :
                   PaddleHandle(player) \notin DOMAIN rigid_bodies =>
                       PaddleHandle(player) \notin DOMAIN rigid_bodies'
        /\ (Runs("ball_goal") /\ BallHandle \notin DOMAIN rigid_bodies) =>
               /\ rigid_bodies' = rigid_bodies
               /\ score' = score ]_vars

\* The paddle_movement half of C3 and the body half of its ball_goal half:
\* a failed lookup leaves the RigidBodySet as it was.
C3_NoBodyCommand ==
    [][ /\ Runs("paddle_movement") =>
               \A player \in Players :
                   PaddleHandle(player) \notin DOMAIN rigid_bodies =>
                       PaddleHandle(player) \notin DOMAIN rigid_bodies'
        /\ (Runs("ball_goal") /\ BallHandle \notin DOMAIN rigid_bodies) =>
               rigid_bodies' = rigid_bodies ]_vars

\* C4: the two counters are non-negative, no step lowers either of them, and
\* only ball_goal changes them (paddle_movement, print_events and
\* render_scoreboard leave both as they are).
C4_ScoreMonotone ==
    [][ /\ score.left >= 0 /\ score.right >= 0
        /\ score'.left >= score.left
        /\ score'.right >= score.right
        /\ score' # score => Runs("ball_goal") ]_vars

\* Both counters have been incremented.
C4_Witness == score.left >= 1 /\ score.right >= 1 /\ ran = Systems

\* The limits of C5, in hundredths of a physics unit.
LowerBound(player) ==
    IF player = "Left" THEN (PADDLE_WIDTH * 100) \div scale
    ELSE ((ARENA_MIDDLE + PADDLE_WIDTH) * 100) \div scale

UpperBound(player) ==
    IF player = "Left" THEN ((ARENA_MIDDLE - PADDLE_WIDTH) * 100) \div scale
    ELSE ((ARENA_WIDTH - PADDLE_WIDTH) * 100) \div scale

\* C5: after paddle_movement each paddle's x lies within its limits: an x
\* below the lower limit has become the lower limit, one above the upper
\* limit the upper limit, and one inside is as it was.
C5_Clamp ==
    [][ Runs("paddle_movement") =>
          \A player \in Players :
              LET before == rigid_bodies[PaddleHandle(player)]
                  after == rigid_bodies'[PaddleHandle(player)]
                  lower == LowerBound(player)
                  upper == UpperBound(player)
              IN  /\ lower <= after.x /\ after.x <= upper
                  /\ before.x < lower => after.x = lower
                  /\ before.x > upper => after.x = upper
                  /\ (lower <= before.x /\ before.x <= upper) => after.x = before.x ]_vars

\* The left paddle was forced up to its lower limit and the right paddle
\* down to its upper limit.
C5_Witness ==
    /\ "paddle_movement" \in ran
    /\ LET left == rigid_bodies[PaddleHandle("Left")]
           right == rigid_bodies[PaddleHandle("Right")]
       IN  /\ left.x = 75 /\ left.angle = 0 /\ left.y = 1500
           /\ right.x = 4925 /\ right.angle = 0 /\ right.y = 3100

\* text[player] is the decimal string of n: its digits, no leading zero.
RECURSIVE DecimalValue(_)
DecimalValue(str) ==
    IF str = <<>> THEN 0
    ELSE 10 * DecimalValue(SubSeq(str, 1, Len(str) - 1))
             + (CHOOSE d \in 0..9 : Digits[d + 1] = str[Len(str)])

IsDecimalOf(str, n) ==
    /\ Len(str) >= 1
    /\ \A i \in 1..Len(str) : \E d \in 0..9 : Digits[d + 1] = str[i]
    /\ Len(str) > 1 => str[1] # "0"
    /\ DecimalValue(str) = n

\* C6: render_scoreboard runs after ball_goal in every frame, and from then
\* to the end of the frame each player's text is the decimal string of that
\* player's score field.
C6_ScoreboardShowsScore ==
    "render_scoreboard" \in ran =>
        /\ "ball_goal" \in ran
        /\ IsDecimalOf(text["Left"], score.left)
        /\ IsDecimalOf(text["Right"], score.right)

\* The end of a frame whose goal pass raised score.right to 1.
C6_Witness ==
    /\ ran = Systems
    /\ ball_transform_x < 0
    /\ score.right = 1
    /\ text["Right"] = <<"1">>
    /\ text["Left"] = <<"0">>

Sign(n) == IF n > 0 THEN 1 ELSE IF n < 0 THEN -1 ELSE 0

Held(key) == IF key \in keyboard_input THEN 1 ELSE 0

\* C7: the direction of each component of the commanded linear velocity is
\* pressed(positive key) - pressed(negative key) of the player's own keys
\* (Left: D - A and W - S, Right: Numpad6 - Numpad4 and Numpad8 - Numpad5),
\* so one of -1, 0, 1 and 0 when both keys are held; the commanded velocity
\* is the zero vector exactly when both components are 0.
C7_Direction ==
    [][ Runs("paddle_movement") =>
          LET left == rigid_bodies'[PaddleHandle("Left")].linvel
              right == rigid_bodies'[PaddleHandle("Right")].linvel
          IN  /\ Sign(left[1]) = Held("D") - Held("A")
              /\ Sign(left[2]) = Held("W") - Held("S")
              /\ Sign(right[1]) = Held("Numpad6") - Held("Numpad4")
              /\ Sign(right[2]) = Held("Numpad8") - Held("Numpad5")
              /\ left = ZeroVec <=>
                     (Held("D") - Held("A") = 0 /\ Held("W") - Held("S") = 0)
              /\ right = ZeroVec <=>
                     (Held("Numpad6") - Held("Numpad4") = 0
                          /\ Held("Numpad8") - Held("Numpad5") = 0) ]_vars

\* Opposing keys of the left player held together: no velocity.
C7_Witness ==
    /\ "paddle_movement" \in ran
    /\ keyboard_input = {"A", "D"}
    /\ rigid_bodies[PaddleHandle("Left")].linvel = ZeroVec

\* C8: the angular velocity commanded to a paddle is +3.0 when the rotation
\* direction is +1 and the angle read is <= +0.8, -3.0 when the direction
\* is -1 and the angle read is >= -0.8, and 0 in every other case.  The
\* angle read is the body's angle at the end of the step (set_angvel does
\* not change it).
C8_AngularVelocity ==
    [][ Runs("paddle_movement") =>
          \A player \in Players :
              LET after == rigid_bodies'[PaddleHandle(player)]
                  direction == IF player = "Left" THEN Held("Q") - Held("E")
                               ELSE Held("Numpad7") - Held("Numpad9")
                  turn_up == direction = 1 /\ after.angle <= 80
                  turn_down == direction = -1 /\ after.angle >= -80
              IN  /\ turn_up => after.angvel = 300
                  /\ turn_down => after.angvel = -300
                  /\ (~turn_up /\ ~turn_down) => after.angvel = 0 ]_vars

\* A paddle past the +0.8 limit is commanded back toward the other limit.
C8_Witness ==
    /\ "paddle_movement" \in ran
    /\ \E player \in Players :
           /\ rigid_bodies[PaddleHandle(player)].angle > 80
           /\ rigid_bodies[PaddleHandle(player)].angvel = -300

\* C9: immediately after print_events both queues are empty, whatever number
\* and variants of events the engine enqueued, and the step changes no
\* score, body, transform or text.
C9_QueuesDrained ==
    [][ Runs("print_events") =>
          /\ intersection_events' = <<>>
          /\ contact_events' = <<>>
          /\ UNCHANGED <<rigid_bodies, ball_transform_x, score, text>> ]_vars

\* print_events has popped two events or more and left nothing.
C9_Witness ==
    /\ "print_events" \in ran
    /\ popped >= 2
    /\ intersection_events = <<>>
    /\ contact_events = <<>>

\* C10: the clamp changes the horizontal position only: when x is forced
\* to a limit the body's y and angle are as before, and when x is within
\* the limits the position is not written.
C10_ClampHorizontalOnly ==
    [][ Runs("paddle_movement") =>
          \A player \in Players :
              LET before == rigid_bodies[PaddleHandle(player)]
                  after == rigid_bodies'[PaddleHandle(player)]
              IN  /\ after.y = before.y
                  /\ after.angle = before.angle
                  /\ (LowerBound(player) <= before.x /\ before.x <= UpperBound(player))
                         => after.x = before.x ]_vars

\* The part of C10 about the vertical position alone.
C10_ClampKeepsVertical ==
    [][ Runs("paddle_movement") =>
          \A player \in Players :
              rigid_bodies'[PaddleHandle(player)].y = rigid_bodies[PaddleHandle(player)].y ]_vars

\* C11: paddle_movement, print_events and ball_goal may run in any order
\* within a frame, and every order gives the same result.  At every point
\* of a frame each part of the state is what the frame started with if the
\* system that writes it has not run yet, and otherwise what that system
\* makes of the frame's starting state alone, whichever other systems ran
\* before it: paddle_movement decides the paddle bodies, ball_goal the ball
\* body and the score (the reset direction being the random draw),
\* print_events the queues.
C11_OrderIndependent ==
    LET start == frame_start
        x == ball_transform_x
        right_scores == x < 0
        left_scores == ~right_scores /\ x > ARENA_WIDTH
        start_ball == start.rigid_bodies[BallHandle]
    IN  /\ \A player \in Players :
               rigid_bodies[PaddleHandle(player)] =
                   IF "paddle_movement" \in ran
                   THEN MoveAllPaddles(start.rigid_bodies, keyboard_input)[PaddleHandle(player)]
                   ELSE start.rigid_bodies[PaddleHandle(player)]
        /\ IF "ball_goal" \in ran /\ (right_scores \/ left_scores)
           THEN \E direction \in Directions : Ball = ResetBall(start_ball, direction)
           ELSE Ball = start_ball
        /\ score =
               IF "ball_goal" \in ran
               THEN [left |-> start.score.left + (IF left_scores THEN 1 ELSE 0),
                     right |-> start.score.right + (IF right_scores THEN 1 ELSE 0)]
               ELSE start.score
        /\ intersection_events =
               IF "print_events" \in ran THEN <<>> ELSE start.intersection_events
        /\ contact_events =
               IF "print_events" \in ran THEN <<>> ELSE start.contact_events

\* A frame in which all three systems had work to do and have done it: a
\* paddle body was written, a goal was scored and the ball reset, events
\* were popped.
C11_Witness ==
    /\ {"paddle_movement", "print_events", "ball_goal"} \subseteq ran
    /\ rigid_bodies[PaddleHandle("Left")] # frame_start.rigid_bodies[PaddleHandle("Left")]
    /\ score # frame_start.score
    /\ Ball # frame_start.rigid_bodies[BallHandle]
    /\ popped >= 1

====
